---------------------------- MODULE Spec2Model ----------------------------
(***************************************************************************)
(* A model of swiftly's command line front end, swiftly/cli/cli.py: the    *)
(* construction of the CLI object (option table, environment fallbacks),   *)
(* CLI.__call__ (parse, early returns, Eventlet selection, client manager, *)
(* alias and command lookup, invocation, error to exit code mapping) and   *)
(* CLI._verbose (the gated diagnostic writer).                             *)
(*                                                                         *)
(* Python values are modelled as follows.  Strings are TLA+ strings.  An   *)
(* attribute that Python leaves None is "None" where the attribute is a    *)
(* tri-state ("None" / "True" / "False") and 0 for context.verbosity.      *)
(* The value of an integer option is a pair <<"int", n>> (a Python int) or *)
(* <<"str", s>> (the string the command line gave), because int() is       *)
(* applied to it later and may fail.  Text written to a stream is a        *)
(* sequence of lines.                                                      *)
(***************************************************************************)
EXTENDS Integers, Sequences, FiniteSets, TLC

VARIABLES
    env,            \* os.environ: a function from the set variables to values
    installed,      \* the installed eventlet.__version__, <<>> when not importable
    pc,             \* position: start, construct_raised, idle, in_command,
                    \*           returned, raised
    defaults,       \* option_parser defaults, computed by CLI.__init__
    argv,           \* context.original_args of the current invocation
    options,        \* options returned by parse_args
    args,           \* args returned by parse_args
    error_encountered, \* option_parser.error_encountered
    ctx,            \* self.context
    printed,        \* what the option parser printed in this invocation:
                    \*   "error" (usage and message), "version", "help"
    stderr,         \* lines this invocation wrote through with_stderr
    debug,          \* lines this invocation wrote through with_debug
    invoked,        \* <<>> or <<[cmd, args]>>: the subcommand call of this invocation
    err,            \* <<>> or <<e>>: the exception the subcommand raised
    rc,             \* the value __call__ returned (when pc = "returned")
    exc,            \* the exception __call__ let through (when pc = "raised")
    now,            \* time.time(), in hundredths of a second
    ncalls,         \* invocations of __call__ on this CLI object
    ndiag           \* diagnostic calls made in this invocation

vars == <<env, installed, pc, defaults, argv, options, args, error_encountered,
          ctx, printed, stderr, debug, invoked, err, rc, exc, now, ncalls, ndiag>>

---------------------------------------------------------------------------
(* Bounds of the model. *)

\* main-parser flags (each with its value, if it takes one) before the command
MaxFlags == 2
\* invocations of __call__ on one CLI object
MaxCalls == 2
\* diagnostic calls during one subcommand
MaxDiag == 2
\* the clock's last reading, in hundredths of a second
MaxTime == 1
\* the largest minor version number of an installed Eventlet
MaxMinor == 12

---------------------------------------------------------------------------
(* The registry and the option table. *)

\* self.commands: the names the classes of COMMANDS register under
COMMANDS ==
    {"auth", "decrypt", "delete", "encrypt", "fordo", "get", "head", "help",
     "ping", "post", "put", "tempurl", "trans"}

\* options stored as strings (action store, no type)
StringOpts ==
    {"auth_url", "auth_user", "auth_key", "auth_tenant", "auth_methods",
     "region", "direct", "proxy"}

\* options stored as given and converted with int() by __call__
IntOpts == {"retries", "concurrency"}

\* store_true options whose default comes from the environment
EnvBoolOpts == {"snet", "cache_auth"}

\* store_true options with no default (None, modelled as FALSE); "version" is
\* the option the parser itself provides
PlainBoolOpts == {"help", "cdn", "eventlet", "no_eventlet", "verbose", "version"}

Dests == StringOpts \cup IntOpts \cup EnvBoolOpts \cup PlainBoolOpts

\* the options that name an environment variable in their default
EnvOpts == StringOpts \cup IntOpts \cup EnvBoolOpts

\* the environment variable an option's default reads
EnvName(d) ==
    CASE d = "auth_url" -> "SWIFTLY_AUTH_URL"
      [] d = "auth_user" -> "SWIFTLY_AUTH_USER"
      [] d = "auth_key" -> "SWIFTLY_AUTH_KEY"
      [] d = "auth_tenant" -> "SWIFTLY_AUTH_TENANT"
      [] d = "auth_methods" -> "SWIFTLY_AUTH_METHODS"
      [] d = "region" -> "SWIFTLY_REGION"
      [] d = "direct" -> "SWIFTLY_DIRECT"
      [] d = "proxy" -> "SWIFTLY_PROXY"
      [] d = "snet" -> "SWIFTLY_SNET"
      [] d = "retries" -> "SWIFTLY_RETRIES"
      [] d = "cache_auth" -> "SWIFTLY_CACHE_AUTH"
      [] d = "concurrency" -> "SWIFTLY_CONCURRENCY"

\* the spellings add_option registers, each with its dest
FlagDest ==
    [f \in {"-h", "-A", "--auth-url", "-U", "--auth-user", "-K", "--auth-key",
            "-T", "--auth-tenant", "--auth-methods", "--region", "-D",
            "--direct", "-P", "--proxy", "-S", "--snet", "-R", "--retries",
            "-C", "--cache-auth", "--cdn", "--concurrency", "--eventlet",
            "--no-eventlet", "-v", "--verbose", "--version"} |->
        CASE f = "-h" -> "help"
          [] f \in {"-A", "--auth-url"} -> "auth_url"
          [] f \in {"-U", "--auth-user"} -> "auth_user"
          [] f \in {"-K", "--auth-key"} -> "auth_key"
          [] f \in {"-T", "--auth-tenant"} -> "auth_tenant"
          [] f = "--auth-methods" -> "auth_methods"
          [] f = "--region" -> "region"
          [] f \in {"-D", "--direct"} -> "direct"
          [] f \in {"-P", "--proxy"} -> "proxy"
          [] f \in {"-S", "--snet"} -> "snet"
          [] f \in {"-R", "--retries"} -> "retries"
          [] f \in {"-C", "--cache-auth"} -> "cache_auth"
          [] f = "--cdn" -> "cdn"
          [] f = "--concurrency" -> "concurrency"
          [] f = "--eventlet" -> "eventlet"
          [] f = "--no-eventlet" -> "no_eventlet"
          [] f \in {"-v", "--verbose"} -> "verbose"
          [] f = "--version" -> "version"]

\* tokens that begin with "-" without being a registered spelling
UnknownFlags == {"--nope"}

\* tokens the parser takes for options (those that begin with "-")
OptionLike == DOMAIN FlagDest \cup UnknownFlags

---------------------------------------------------------------------------
(* Python's conversions, on the strings of the model. *)

\* the strings int() accepts, with their values
IntLiterals == {"0", "2", "4", "7"}

IntOfLiteral(s) ==
    CASE s = "0" -> 0 [] s = "2" -> 2 [] s = "4" -> 4 [] s = "7" -> 7

\* whether int(v) returns; it raises ValueError otherwise
IntOk(v) == v[1] = "int" \/ v[2] \in IntLiterals

\* int(v) where it returns
PyInt(v) == IF v[1] = "int" THEN v[2] ELSE IntOfLiteral(v[2])

\* str.lower()
Lower(s) == IF s \in {"True", "TRUE", "true"} THEN "true" ELSE s

\* os.environ.get(name, dflt)
EnvGet(e, name, dflt) == IF name \in DOMAIN e THEN e[name] ELSE dflt

\* the hard default of int(os.environ.get(..., n))
HardInt(d) == IF d = "retries" THEN 4 ELSE 1

\* the value int() is applied to when the constructor builds an integer default
IntDefaultArg(e, d) ==
    IF EnvName(d) \in DOMAIN e THEN <<"str", e[EnvName(d)]>> ELSE <<"int", HardInt(d)>>

\* whether CLI.__init__ completes: both int() conversions return
ConstructOk(e) == \A d \in IntOpts : IntOk(IntDefaultArg(e, d))

\* the default add_option records for dest d
DefaultOf(e, d) ==
    CASE d \in StringOpts -> EnvGet(e, EnvName(d), "")
      [] d \in EnvBoolOpts -> Lower(EnvGet(e, EnvName(d), "false")) = "true"
      [] d \in IntOpts -> <<"int", PyInt(IntDefaultArg(e, d))>>
      [] OTHER -> FALSE


---------------------------------------------------------------------------
(* option_parser.parse_args with interspersed arguments disabled: flags are *)
(* consumed up to the first token that is not an option; that token and    *)
(* everything after it are the args.  An unknown flag or a missing value   *)
(* makes the parser call error(), which sets error_encountered.            *)

RECURSIVE ParseArgs(_, _)
ParseArgs(values, tokens) ==
    IF tokens = <<>>
    THEN [values |-> values, args |-> <<>>, error |-> FALSE]
    ELSE LET t == Head(tokens) IN
         IF t \notin OptionLike
         THEN [values |-> values, args |-> tokens, error |-> FALSE]
         ELSE IF t \notin DOMAIN FlagDest
         THEN [values |-> values, args |-> Tail(tokens), error |-> TRUE]
         ELSE LET d == FlagDest[t] IN
              IF d \in EnvBoolOpts \cup PlainBoolOpts
              THEN ParseArgs([values EXCEPT ![d] = TRUE], Tail(tokens))
              ELSE IF Len(tokens) < 2
              THEN [values |-> values, args |-> <<>>, error |-> TRUE]
              ELSE ParseArgs(
                       [values EXCEPT ![d] = IF d \in IntOpts
                                             THEN <<"str", tokens[2]>>
                                             ELSE tokens[2]],
                       Tail(Tail(tokens)))

---------------------------------------------------------------------------
(* Eventlet selection. *)

\* the decimal digits of n, as character codes
RECURSIVE Digits(_)
Digits(n) == IF n < 10 THEN <<48 + n>> ELSE Digits(n \div 10) \o <<48 + (n % 10)>>

\* eventlet.__version__ of the release <<major, minor, patch>>: "major.minor.patch"
VersionString(v) == Digits(v[1]) \o <<46>> \o Digits(v[2]) \o <<46>> \o Digits(v[3])

\* the literal '0.11.0'
MinVersionString == <<48, 46, 49, 49, 46, 48>>

\* Python's a >= b on strings: by character code, a proper prefix being smaller
RECURSIVE StrGE(_, _)
StrGE(a, b) ==
    IF b = <<>> THEN TRUE
    ELSE IF a = <<>> THEN FALSE
    ELSE IF Head(a) # Head(b) THEN Head(a) > Head(b)
    ELSE StrGE(Tail(a), Tail(b))

\* eventlet.__version__ >= '0.11.0'
VersionOk(v) == StrGE(VersionString(v), MinVersionString)

\* the try block: import eventlet, then the version test
DetectEventlet(inst) ==
    IF inst # <<>> /\ VersionOk(inst) THEN "True" ELSE "False"

\* context.eventlet after the three ifs
SelectEventlet(opts, inst) ==
    LET e0 == "None"
        e1 == IF opts["eventlet"] THEN "True" ELSE e0
        e2 == IF opts["no_eventlet"] THEN "False" ELSE e1
    IN  IF e2 = "None" THEN DetectEventlet(inst) ELSE e2

\* io_manager.subprocess_module
SubprocessModule(ev, inst) ==
    IF ev = "True" /\ inst # <<>> THEN "eventlet.green.subprocess" ELSE "subprocess"

---------------------------------------------------------------------------
(* The client manager. *)

\* ClientManager as it would be if the direct path were used only when no auth
\* URL is given
ClientManagerAuthFirst(opts, retries, ev) ==
    IF opts["direct"] # "" /\ opts["auth_url"] = ""
    THEN [client |-> "DirectClient",
          kwargs |-> [swift_proxy_storage_path |-> opts["direct"],
                      attempts |-> retries + 1,
                      eventlet |-> ev,
                      verbose |-> "_verbose"]]
    ELSE [client |-> "StandardClient",
          kwargs |-> [auth_methods |-> opts["auth_methods"],
                      auth_url |-> opts["auth_url"],
                      auth_tenant |-> opts["auth_tenant"],
                      auth_user |-> opts["auth_user"],
                      auth_key |-> opts["auth_key"],
                      auth_cache_path |-> "None",
                      region |-> opts["region"],
                      snet |-> opts["snet"],
                      attempts |-> retries + 1,
                      eventlet |-> ev,
                      verbose |-> "_verbose"]]

\* the ClientManager(...) call: the client class and the keyword arguments
ClientManager(opts, retries, ev) ==
    IF opts["direct"] # ""
    THEN [client |-> "DirectClient",
          kwargs |-> [swift_proxy_storage_path |-> opts["direct"],
                      attempts |-> retries + 1,
                      eventlet |-> ev,
                      verbose |-> "_verbose"]]
    ELSE [client |-> "StandardClient",
          kwargs |-> [auth_methods |-> opts["auth_methods"],
                      auth_url |-> opts["auth_url"],
                      auth_tenant |-> opts["auth_tenant"],
                      auth_user |-> opts["auth_user"],
                      auth_key |-> opts["auth_key"],
                      auth_cache_path |-> IF opts["cache_auth"]
                                          THEN "<tmp>/<user>.swiftly"
                                          ELSE "None",
                      region |-> opts["region"],
                      snet |-> opts["snet"],
                      attempts |-> retries + 1,
                      eventlet |-> ev,
                      verbose |-> "_verbose"]]

\* context.client_manager before any invocation set it
NoClientManager == [client |-> "None", kwargs |-> <<>>]

---------------------------------------------------------------------------
(* Lookup and the mapping of failures. *)

\* ResolveCommand as it would be without the alias
ResolveCommandNoAlias(token) == token

\* the alias: 'for' is 'fordo'
ResolveCommand(token) == IF token = "for" THEN "fordo" ELSE token

\* %r of a plain string
Repr(s) == "'" \o s \o "'"

\* UnknownCommandLine as it would be with %s in place of %r
UnknownCommandLineUnquoted(token) == "ERROR unknown command " \o token

\* the line written for an unknown command
UnknownCommandLine(token) == "ERROR unknown command " \o Repr(token)

\* traceback.format_exc(), then the extra newline
TracebackLines == <<"Traceback (most recent call last):", "">>

\* the exceptions a subcommand raises: with or without a text attribute, with or
\* without a code attribute
Exception(has_text, text, has_code, code) ==
    [has_text |-> has_text, text |-> text, has_code |-> has_code, code |-> code]

\* ErrorOutput as it would be if an empty text were treated like a missing one
ErrorOutputTraceWhenEmpty(e) ==
    IF e.has_text /\ e.text # "" THEN <<"ERROR " \o e.text>> ELSE TracebackLines

\* what the except block writes through with_stderr
ErrorOutput(e) ==
    IF e.has_text
    THEN IF e.text # "" THEN <<"ERROR " \o e.text>> ELSE <<>>
    ELSE TracebackLines

\* ErrorCode as it would be if the except block returned 1
ErrorCodeAlwaysOne(e) == 1

\* getattr(err, 'code', 1)
ErrorCode(e) == IF e.has_code THEN e.code ELSE 1


---------------------------------------------------------------------------
(* CLI.__init__ *)

\* self.context as the constructor leaves it; an attribute never set reads None
NewContext ==
    [verbose |-> "None",
     io_verbose |-> "None",
     verbosity |-> 0,
     eventlet |-> "None",
     subprocess_module |-> "None",
     client_manager |-> NoClientManager,
     cdn |-> FALSE,
     concurrency |-> 0,
     original_begin |-> 0,
     original_main_args |-> <<>>]

\* CLI(): the option defaults are read from the environment here, once; int() of
\* a SWIFTLY_RETRIES or SWIFTLY_CONCURRENCY that is no integer raises ValueError
Construct ==
    /\ pc = "start"
    /\ IF ConstructOk(env)
       THEN /\ pc' = "idle"
            /\ defaults' = [d \in Dests |-> DefaultOf(env, d)]
            /\ ctx' = NewContext
       ELSE /\ pc' = "construct_raised"
            /\ UNCHANGED <<defaults, ctx>>
    /\ UNCHANGED <<env, installed, argv, options, args, error_encountered,
                   printed, stderr, debug, invoked, err, rc, exc, now, ncalls,
                   ndiag>>

---------------------------------------------------------------------------
(* CLI.__call__, up to the invocation of the subcommand *)

\* a return before the subcommand: what was printed or written, and the code
Return(c, o, a, e, pr, se, code) ==
    [pc |-> "returned", ctx |-> c, options |-> o, args |-> a, error |-> e,
     printed |-> pr, stderr |-> se, invoked |-> <<>>, rc |-> code, exc |-> ""]

\* an exception that leaves __call__
Raise(c, o, a, name) ==
    [pc |-> "raised", ctx |-> c, options |-> o, args |-> a, error |-> FALSE,
     printed |-> <<>>, stderr |-> <<>>, invoked |-> <<>>, rc |-> 0, exc |-> name]

\* the subcommand is called: self.commands[command](args[1:])
Invoke(c, o, a, command) ==
    [pc |-> "in_command", ctx |-> c, options |-> o, args |-> a, error |-> FALSE,
     printed |-> <<>>, stderr |-> <<>>,
     invoked |-> <<[cmd |-> command, args |-> Tail(a)]>>, rc |-> 0, exc |-> ""]

\* context.verbosity, context.verbose and io_manager.verbose after "if options.verbose"
SetVerbose(c, o) ==
    IF o["verbose"]
    THEN [c EXCEPT !.verbosity = 1,
                   !.verbose = "_verbose",
                   !.io_verbose = "partial(_verbose, skip_sub_command=True)"]
    ELSE c

\* original_args[:-len(args)], for a non-empty args
MainArgs(a, rest) == SubSeq(a, 1, Len(a) - Len(rest))

\* HelpRequested as it would be without "or options.help"
HelpRequestedNoArgsOnly(o, rest) == rest = <<>>

\* "if not args or options.help"
HelpRequested(o, rest) == rest = <<>> \/ o["help"]

\* the body of __call__ for the argument vector a, begun at time t, with the
\* context c and the parser defaults dflt
CallResult(c, dflt, inst, a, t) ==
    LET p  == ParseArgs(dflt, a)
        o  == p.values
        c0 == [c EXCEPT !.original_begin = t]
    IN
    IF p.error THEN Return(c0, o, p.args, TRUE, <<"error">>, <<>>, 1)
    ELSE IF o["version"] THEN Return(c0, o, p.args, FALSE, <<"version">>, <<>>, 1)
    ELSE IF HelpRequested(o, p.args)
    THEN Return(c0, o, p.args, FALSE, <<"help">>, <<>>, 1)
    ELSE
    LET ev == SelectEventlet(o, inst)
        c1 == SetVerbose(
                  [c0 EXCEPT !.original_main_args = MainArgs(a, p.args),
                             !.eventlet = ev,
                             !.subprocess_module = SubprocessModule(ev, inst)],
                  o)
    IN
    IF ~IntOk(o["retries"]) THEN Raise(c1, o, p.args, "ValueError")
    ELSE
    LET o1 == [o EXCEPT !["retries"] = <<"int", PyInt(o["retries"])>>]
        c2 == [c1 EXCEPT !.client_manager = ClientManager(o1, o1["retries"][2], ev),
                         !.cdn = o1["cdn"]]
    IN
    IF ~IntOk(o1["concurrency"]) THEN Raise(c2, o1, p.args, "ValueError")
    ELSE
    LET c3 == [c2 EXCEPT !.concurrency = PyInt(o1["concurrency"])]
        command == ResolveCommand(p.args[1])
    IN
    IF command \notin COMMANDS
    THEN Return(c3, o1, p.args, FALSE, <<>>, <<UnknownCommandLine(p.args[1])>>, 1)
    ELSE Invoke(c3, o1, p.args, command)


\* __call__(args): U names the inputs the invocation is drawn from.  The
\* documented script, sys.exit(swiftly.cli.CLI()()), calls a CLI object once;
\* U.reuse says whether the object is called again after an invocation ended
Call(U) ==
    /\ pc \in {"idle", "returned", "raised"}
    /\ ncalls = 0 \/ (U.reuse /\ ncalls < MaxCalls)
    /\ \E a \in U.argvs, t \in now..MaxTime :
          LET r == CallResult(ctx, defaults, installed, a, t) IN
          /\ argv' = a
          /\ now' = t
          /\ pc' = r.pc
          /\ ctx' = r.ctx
          /\ options' = r.options
          /\ args' = r.args
          /\ error_encountered' = r.error
          /\ printed' = r.printed
          /\ stderr' = r.stderr
          /\ invoked' = r.invoked
          /\ rc' = r.rc
          /\ exc' = r.exc
    /\ debug' = <<>>
    /\ err' = <<>>
    /\ ndiag' = 0
    /\ ncalls' = ncalls + 1
    /\ UNCHANGED <<env, installed, defaults>>

---------------------------------------------------------------------------
(* CLI._verbose *)

DigitString(n) ==
    CASE n = 0 -> "0" [] n = 1 -> "1" [] n = 2 -> "2" [] n = 3 -> "3"
      [] n = 4 -> "4" [] n = 5 -> "5" [] n = 6 -> "6" [] n = 7 -> "7"
      [] n = 8 -> "8" [] n = 9 -> "9"

\* '%d' % n, n >= 0
RECURSIVE Decimal(_)
Decimal(n) ==
    IF n < 10 THEN DigitString(n) ELSE Decimal(n \div 10) \o DigitString(n % 10)

\* '%.02f' % seconds, for an elapsed time of d hundredths of a second
Fixed2(d) ==
    Decimal(d \div 100) \o "." \o DigitString((d % 100) \div 10) \o DigitString(d % 10)

\* the line _verbose writes: 'VERBOSE %.02f ' % elapsed, then msg % args
VerboseLine(d, text) == "VERBOSE " \o Fixed2(d) \o " " \o text

\* who can make a diagnostic call: the client manager always holds _verbose;
\* context.verbose and io_manager.verbose are callable once they were set
DiagSources(c) ==
    {"client_manager"}
        \cup (IF c.verbose # "None" THEN {"context"} ELSE {})
        \cup (IF c.io_verbose # "None" THEN {"io_manager"} ELSE {})

\* whether _verbose writes: "if self.context.verbosity"
VerboseEnabled(c) == c.verbosity # 0

\* a diagnostic call made while the subcommand runs; its message is msg % args
\* of a template that matches its arguments (a mismatch raises TypeError inside
\* the subcommand and reaches __call__ as a failure without text)
Verbose(U) ==
    /\ pc = "in_command"
    /\ ndiag < MaxDiag
    /\ \E src \in DiagSources(ctx), m \in U.msgs :
          IF VerboseEnabled(ctx)
          THEN \E t \in now..MaxTime :
                  /\ now' = t
                  /\ debug' = Append(debug,
                        [text |-> VerboseLine(t - ctx.original_begin, m),
                         skip_sub_command |-> (src = "io_manager"),
                         flushed |-> TRUE])
          ELSE UNCHANGED <<now, debug>>
    /\ ndiag' = ndiag + 1
    /\ UNCHANGED <<env, installed, pc, defaults, argv, options, args,
                   error_encountered, ctx, printed, stderr, invoked, err, rc,
                   exc, ncalls>>

---------------------------------------------------------------------------
(* CLI.__call__, after the subcommand *)

\* the subcommand returned: return 0
CommandReturns ==
    /\ pc = "in_command"
    /\ pc' = "returned"
    /\ rc' = 0
    /\ UNCHANGED <<env, installed, defaults, argv, options, args,
                   error_encountered, ctx, printed, stderr, debug, invoked, err,
                   exc, now, ncalls, ndiag>>

\* the subcommand raised e: the except block
CommandRaises(U) ==
    /\ pc = "in_command"
    /\ \E e \in U.errors :
          /\ err' = <<e>>
          /\ stderr' = stderr \o ErrorOutput(e)
          /\ rc' = ErrorCode(e)
    /\ pc' = "returned"
    /\ UNCHANGED <<env, installed, defaults, argv, options, args,
                   error_encountered, ctx, printed, debug, invoked, exc, now,
                   ncalls, ndiag>>

---------------------------------------------------------------------------
(* The inputs and the specifications. *)

\* the sequences over S of length at most n
SeqsUpTo(S, n) == UNION {[1..k -> S] : k \in 0..n}

RECURSIVE Flatten(_)
Flatten(ss) == IF ss = <<>> THEN <<>> ELSE Head(ss) \o Flatten(Tail(ss))

\* argument vectors: at most MaxFlags flags, each with its value if any, then
\* the command part
Argvs(items, cmds) ==
    {Flatten(fs) \o c : fs \in SeqsUpTo(items, MaxFlags), c \in cmds}

\* the environment with no SWIFTLY_ variable set
NoEnv == <<>>

\* the environment with the one variable n set to v
OneEnv(n, v) == [x \in {n} |-> v]

\* failures a subcommand raises
Failures ==
    {Exception(FALSE, "", hc, 4) : hc \in BOOLEAN}
        \cup {Exception(TRUE, tx, FALSE, 0) : tx \in {"", "no such container"}}
        \cup {Exception(TRUE, tx, TRUE, cd) :
                 tx \in {"", "no such container"}, cd \in {0, 4}}

\* one failure, one message: enough for every step to occur
OneFailure == {Exception(TRUE, "no such container", TRUE, 4)}
OneMessage == {"GET /v1/AUTH_test"}

Init(U) ==
    /\ env \in U.envs
    /\ installed \in U.installed
    /\ pc = "start"
    /\ defaults = <<>>
    /\ argv = <<>>
    /\ options = <<>>
    /\ args = <<>>
    /\ error_encountered = FALSE
    /\ ctx = <<>>
    /\ printed = <<>>
    /\ stderr = <<>>
    /\ debug = <<>>
    /\ invoked = <<>>
    /\ err = <<>>
    /\ rc = 0
    /\ exc = ""
    /\ now = 0
    /\ ncalls = 0
    /\ ndiag = 0

Next(U) ==
    \/ Construct
    \/ Call(U)
    \/ Verbose(U)
    \/ CommandReturns
    \/ CommandRaises(U)

\* dispatch: early returns, lookup, alias, failures
DispatchInputs ==
    [envs |-> {NoEnv},
     installed |-> {<<>>},
     argvs |-> Argvs({<<"-h">>, <<"--version">>, <<"-v">>, <<"--nope">>, <<"-R">>,
                      <<"-R", "7">>, <<"--retries", "abc">>,
                      <<"--concurrency", "abc">>},
                     {<<>>, <<"get">>, <<"for">>, <<"fordo">>, <<"bogus">>,
                      <<"for", "x">>, <<"fordo", "x">>, <<"get", "-h">>}),
     msgs |-> OneMessage,
     errors |-> Failures,
     reuse |-> FALSE]

Spec == Init(DispatchInputs) /\ [][Next(DispatchInputs)]_vars


---------------------------------------------------------------------------
(* Claims on dispatch and on the mapping of failures, under Spec. *)

\* the invocation got past the parser and the version and help tests with a
\* subcommand token
HasCommandToken ==
    /\ pc \in {"in_command", "returned"}
    /\ ~error_encountered
    /\ ~options["version"]
    /\ ~options["help"]
    /\ args # <<>>

\* the subcommand of this invocation raised e and __call__ returned
Failed == pc = "returned" /\ err # <<>>

\* C1: every invocation of __call__ that ends, ends by returning an integer, for
\* every argument vector and every outcome of the subcommand; no exception
\* leaves __call__.
C1_AlwaysReturnsInteger ==
    pc \in {"returned", "raised"} => (pc = "returned" /\ rc \in Int)

\* C2: when the subcommand raises a failure with a non-empty text, exactly the
\* line 'ERROR <text>' is written to the error stream and the return value is
\* the failure's code if it has one, otherwise 1.
C2_SignaledFailure ==
    (Failed /\ err[1].has_text /\ err[1].text # "") =>
        /\ stderr = <<"ERROR " \o err[1].text>>
        /\ (err[1].has_code => rc = err[1].code)
        /\ (~err[1].has_code => rc = 1)

C2_Witness ==
    /\ Failed
    /\ err[1] = Exception(TRUE, "no such container", TRUE, 4)
    /\ stderr = <<"ERROR no such container">>
    /\ rc = 4

C7_UnknownCommand ==
    (HasCommandToken /\ args[1] \notin COMMANDS \cup {"for"}) =>
        /\ pc = "returned"
        /\ invoked = <<>>
        /\ err = <<>>
        /\ stderr = <<"ERROR unknown command '" \o args[1] \o "'">>
        /\ rc = 1

C7_Witness ==
    /\ pc = "returned"
    /\ argv = <<"-v", "bogus">>
    /\ invoked = <<>>
    /\ stderr = <<"ERROR unknown command 'bogus'">>
    /\ rc = 1

\* the exit code as a function of how the invoked subcommand ended
OutcomeCode ==
    IF err = <<>> THEN 0 ELSE IF err[1].has_code THEN err[1].code ELSE 1

\* C8: the token 'for' invokes the command registered as 'fordo' with the rest of
\* the arguments, as the token 'fordo' does, and the exit code is the same
\* function of how that command ends; every other token is looked up as typed.
C8_ForIsFordo ==
    HasCommandToken =>
        /\ args[1] \in {"for", "fordo"} =>
              /\ invoked = <<[cmd |-> "fordo", args |-> Tail(args)]>>
              /\ pc = "returned" => rc = OutcomeCode
        /\ args[1] # "for" =>
              /\ args[1] \in COMMANDS =>
                    invoked = <<[cmd |-> args[1], args |-> Tail(args)]>>
              /\ args[1] \notin COMMANDS => invoked = <<>>

C8_Witness ==
    /\ pc = "returned"
    /\ argv = <<"for", "x">>
    /\ invoked = <<[cmd |-> "fordo", args |-> <<"x">>]>>
    /\ err = <<>>
    /\ rc = 0

\* the invocation ended before the lookup: a parse failure, a version request, a
\* help request or no subcommand token
EndedEarly ==
    /\ pc = "returned"
    /\ \/ error_encountered
       \/ options["version"]
       \/ options["help"]
       \/ args = <<>>

\* the part of C9 on the early returns: each returns 1 and invokes nothing; -h
\* first does so whatever follows, and the empty vector prints the help
C9_EarlyReturns ==
    /\ EndedEarly => (rc = 1 /\ invoked = <<>> /\ stderr = <<>>)
    /\ (pc \in {"in_command", "returned", "raised"} /\ argv # <<>>
            /\ argv[1] \in {"-h", "--version", "--nope"}) =>
           (pc = "returned" /\ rc = 1 /\ invoked = <<>>)
    /\ (pc \in {"in_command", "returned", "raised"} /\ argv = <<>>) =>
           (pc = "returned" /\ rc = 1 /\ invoked = <<>> /\ printed = <<"help">>)

\* C9, as claimed: the early returns, and the return value is 0 only after an
\* invoked subcommand completed normally.
C9_EarlyReturnsOriginal ==
    /\ C9_EarlyReturns
    /\ (pc = "returned" /\ rc = 0) => (invoked # <<>> /\ err = <<>>)

\* C9, as amended: the early returns, and the return value is 0 only after a
\* subcommand was invoked and either completed normally or raised a failure
\* whose code attribute is 0.
C9_EarlyReturnsAmended ==
    /\ C9_EarlyReturns
    /\ (pc = "returned" /\ rc = 0) =>
           /\ invoked # <<>>
           /\ err = <<>> \/ (err[1].has_code /\ err[1].code = 0)

C9_Witness ==
    /\ pc = "returned"
    /\ argv = <<"-h", "get">>
    /\ printed = <<"help">>
    /\ invoked = <<>>
    /\ rc = 1


---------------------------------------------------------------------------
(* Verbose gating when a CLI object is called more than once, under        *)
(* SpecReuse.                                                              *)

ReuseInputs ==
    [envs |-> {NoEnv},
     installed |-> {<<>>},
     argvs |-> Argvs({<<"-v">>}, {<<"get">>}),
     msgs |-> OneMessage,
     errors |-> OneFailure,
     reuse |-> TRUE]

SpecReuse == Init(ReuseInputs) /\ [][Next(ReuseInputs)]_vars

\* the form 'VERBOSE <seconds, 2 decimals> <message>'
IsVerboseLine(text) ==
    \E s \in 0..1, h \in 0..99, m \in OneMessage :
        text = "VERBOSE " \o Decimal(s) \o "." \o DigitString(h \div 10)
                   \o DigitString(h % 10) \o " " \o m

\* C5: in an invocation whose arguments do not request verbosity no diagnostic
\* call writes anything, whatever was invoked before on the same CLI object; in
\* an invocation that requests verbosity every diagnostic call writes one
\* flushed line 'VERBOSE <elapsed seconds, 2 decimals> <message>'.
C5_VerboseGating ==
    pc \in {"in_command", "returned"} /\ invoked # <<>> =>
        /\ ~options["verbose"] => debug = <<>>
        /\ options["verbose"] =>
              /\ Len(debug) = ndiag
              /\ \A i \in 1..Len(debug) :
                    debug[i].flushed /\ IsVerboseLine(debug[i].text)

---------------------------------------------------------------------------
(* Resolution of the options, under SpecConfig: one environment variable   *)
(* and one flag at a time, every option and every spelling.                *)

\* variables named like the others for the options that read none
UnreadEnvNames ==
    {"SWIFTLY_CDN", "SWIFTLY_VERBOSE", "SWIFTLY_EVENTLET", "SWIFTLY_NO_EVENTLET",
     "SWIFTLY_HELP"}

ConfigEnvs ==
    {NoEnv}
        \cup {OneEnv(EnvName(d), v) : d \in StringOpts, v \in {"", "e"}}
        \cup {OneEnv(EnvName(d), v) : d \in EnvBoolOpts, v \in {"", "True", "1"}}
        \cup {OneEnv(EnvName(d), v) : d \in IntOpts, v \in {"", "2", "abc"}}
        \cup {OneEnv(n, "true") : n \in UnreadEnvNames}

\* a flag with its value, if it takes one
FlagItems(f) ==
    CASE FlagDest[f] \in StringOpts -> {<<f, "f">>, <<f, "">>}
      [] FlagDest[f] \in IntOpts -> {<<f, "7">>, <<f, "abc">>}
      [] OTHER -> {<<f>>}

ConfigInputs ==
    [envs |-> ConfigEnvs,
     installed |-> {<<>>},
     argvs |-> {<<"get">>}
                   \cup {i \o <<"get">> : i \in UNION {FlagItems(f) : f \in DOMAIN FlagDest}},
     msgs |-> OneMessage,
     errors |-> OneFailure,
     reuse |-> FALSE]

SpecConfig == Init(ConfigInputs) /\ [][Next(ConfigInputs)]_vars

---------------------------------------------------------------------------
(* The choice of the client, under SpecTransport. *)

TransportEnvs ==
    {NoEnv, OneEnv("SWIFTLY_DIRECT", "/v1/AUTH_env"), OneEnv("SWIFTLY_DIRECT", ""),
     OneEnv("SWIFTLY_AUTH_URL", "http://env"),
     [x \in {"SWIFTLY_DIRECT", "SWIFTLY_AUTH_URL", "SWIFTLY_AUTH_KEY"} |->
         CASE x = "SWIFTLY_DIRECT" -> "/v1/AUTH_env"
           [] x = "SWIFTLY_AUTH_URL" -> "http://env"
           [] x = "SWIFTLY_AUTH_KEY" -> "envkey"]}

TransportInputs ==
    [envs |-> TransportEnvs,
     installed |-> {<<>>},
     argvs |-> Argvs({<<"-D", "/v1/AUTH_flag">>, <<"--direct", "">>,
                      <<"-A", "http://flag">>, <<"-U", "user">>, <<"-K", "key">>,
                      <<"-T", "tenant">>, <<"-R", "7">>},
                     {<<"get">>}),
     msgs |-> OneMessage,
     errors |-> OneFailure,
     reuse |-> FALSE]

SpecTransport == Init(TransportInputs) /\ [][Next(TransportInputs)]_vars

---------------------------------------------------------------------------
(* Eventlet selection, under SpecEventlet. *)

\* Eventlet not installed, or one of its releases
EventletReleases ==
    {<<>>} \cup {<<major, minor, 0>> : major \in 0..1, minor \in 0..MaxMinor}

EventletInputs ==
    [envs |-> {NoEnv},
     installed |-> EventletReleases,
     argvs |-> Argvs({<<"--eventlet">>, <<"--no-eventlet">>}, {<<"get">>}),
     msgs |-> OneMessage,
     errors |-> OneFailure,
     reuse |-> FALSE]

SpecEventlet == Init(EventletInputs) /\ [][Next(EventletInputs)]_vars

\* the release v is at least 0.11.0, as a version number
AtLeast_0_11_0(v) == v[1] > 0 \/ (v[1] = 0 /\ v[2] >= 11)

\* C10: with --eventlet alone the backend is enabled, with --no-eventlet alone it
\* is disabled, and with neither it is enabled exactly when Eventlet is
\* importable and its version, compared as a version number, is at least 0.11.0.
C10_EventletSelection ==
    HasCommandToken =>
        /\ (options["eventlet"] /\ ~options["no_eventlet"]) => ctx.eventlet = "True"
        /\ (options["no_eventlet"] /\ ~options["eventlet"]) => ctx.eventlet = "False"
        /\ (~options["eventlet"] /\ ~options["no_eventlet"]) =>
              (ctx.eventlet = "True" <=>
                  (installed # <<>> /\ AtLeast_0_11_0(installed)))


---------------------------------------------------------------------------
(* Claims on the resolution of the options, under SpecConfig. *)

\* the options add_option registers
MainOpts == Dests \ {"version"}

\* SWIFTLY_<NAME> for every option, read by the code or not
ClaimedEnvName(d) ==
    CASE d \in EnvOpts -> EnvName(d)
      [] d = "cdn" -> "SWIFTLY_CDN"
      [] d = "verbose" -> "SWIFTLY_VERBOSE"
      [] d = "eventlet" -> "SWIFTLY_EVENTLET"
      [] d = "no_eventlet" -> "SWIFTLY_NO_EVENTLET"
      [] d = "help" -> "SWIFTLY_HELP"

\* the flag of option d leads the argument vector
FlagPassed(d) ==
    argv # <<>> /\ argv[1] \in DOMAIN FlagDest /\ FlagDest[argv[1]] = d

\* a string as a value of option d
ValueFor(d, s) ==
    CASE d \in IntOpts -> IntOfLiteral(s)
      [] d \in StringOpts -> s
      [] OTHER -> Lower(s) = "true"

HardDefault(d) ==
    CASE d = "retries" -> 4
      [] d = "concurrency" -> 1
      [] d \in StringOpts -> ""
      [] OTHER -> FALSE

\* the value the invocation resolved for option d
Resolved(d) ==
    CASE d = "retries" -> options["retries"][2]
      [] d = "concurrency" -> ctx.concurrency
      [] OTHER -> options[d]

\* what the flag passed for option d gives
FlagValue(d) == IF d \in IntOpts \cup StringOpts THEN ValueFor(d, argv[2]) ELSE TRUE

\* an integer option is given a value, by the flag or else by the environment
\* variable named n, that int() rejects
BadIntFlag(d) == FlagPassed(d) /\ argv[2] \notin IntLiterals
BadIntEnv(d, n) == n \in DOMAIN env /\ env[n] \notin IntLiterals

\* C4: every option of the main parser resolves to the flag's value if the flag
\* was passed, otherwise to its SWIFTLY_<NAME> variable if that is set and not
\* empty, otherwise to the hard default (retries 4, concurrency 1, booleans
\* false, strings empty); integer values are integer literals.
C4_Resolution ==
    /\ pc = "construct_raised" =>
           \E d \in IntOpts : BadIntEnv(d, EnvName(d)) /\ env[EnvName(d)] # ""
    /\ HasCommandToken =>
           \A d \in MainOpts :
               Resolved(d) =
                   IF FlagPassed(d) THEN FlagValue(d)
                   ELSE IF ClaimedEnvName(d) \in DOMAIN env
                            /\ env[ClaimedEnvName(d)] # ""
                        THEN ValueFor(d, env[ClaimedEnvName(d)])
                        ELSE HardDefault(d)

\* What the code does instead: the options that read an environment variable
\* (the string options, snet, cache_auth, retries, concurrency) resolve to the
\* flag's value if the flag was passed, otherwise to the variable as it was when
\* the CLI object was constructed, if set and not empty, otherwise to the hard
\* default;
\* cdn, verbose, eventlet, no_eventlet and help read no variable and are true
\* exactly when their flag was passed; retries and concurrency go through
\* int(): construction raises exactly when the variable of one of them is set
\* to something that is no integer literal (the empty string included), and
\* the invocation raises only when the flag of one of them has such a value.
ResolutionOfTheCode ==
    /\ pc = "construct_raised" <=>
           (pc # "start" /\ \E d \in IntOpts : BadIntEnv(d, EnvName(d)))
    /\ pc = "raised" => \E d \in IntOpts : BadIntFlag(d)
    /\ HasCommandToken =>
           /\ \A d \in EnvOpts :
                  Resolved(d) =
                      IF FlagPassed(d) THEN FlagValue(d)
                      ELSE IF EnvName(d) \in DOMAIN env /\ env[EnvName(d)] # ""
                           THEN ValueFor(d, env[EnvName(d)])
                           ELSE HardDefault(d)
           /\ \A d \in MainOpts \ EnvOpts : Resolved(d) = FlagPassed(d)

\* SWIFTLY_RETRIES=2 with --retries 7 resolves to 7, so 8 attempts
ResolutionExample ==
    /\ pc = "in_command"
    /\ env = OneEnv("SWIFTLY_RETRIES", "2")
    /\ argv = <<"--retries", "7", "get">>
    /\ options["retries"] = <<"int", 7>>
    /\ ctx.client_manager.kwargs.attempts = 8

---------------------------------------------------------------------------
(* Claims on the choice of the client, under SpecTransport. *)

AuthFields == {"auth_url", "auth_user", "auth_key", "auth_tenant"}

\* C6: the client is the direct one exactly when the direct path resolved from
\* -D/--direct or SWIFTLY_DIRECT is not empty; the direct client is given none of
\* the auth URL, user, key and tenant, and the standard client is given all four
\* as resolved.
C6_DirectOrStandard ==
    HasCommandToken =>
        LET cm == ctx.client_manager IN
        /\ cm.client = "DirectClient" <=> options["direct"] # ""
        /\ cm.client = "DirectClient" =>
              /\ DOMAIN cm.kwargs \cap AuthFields = {}
              /\ cm.kwargs.swift_proxy_storage_path = options["direct"]
        /\ cm.client # "DirectClient" =>
              /\ cm.client = "StandardClient"
              /\ \A f \in AuthFields : cm.kwargs[f] = options[f]

C6_Witness ==
    /\ pc = "in_command"
    /\ "SWIFTLY_AUTH_URL" \in DOMAIN env
    /\ argv = <<"-D", "/v1/AUTH_flag", "-K", "key", "get">>
    /\ ctx.client_manager.client = "DirectClient"
    /\ DOMAIN ctx.client_manager.kwargs =
           {"swift_proxy_storage_path", "attempts", "eventlet", "verbose"}

=============================================================================
